---- MODULE Spec2Model ----
(***************************************************************************)
(* Model of netzero-ems.                                                   *)
(*                                                                         *)
(* Spec, SpecRepeat: the energy-flow decomposition (src/app.py,            *)
(* calculate_flows).  One call is a run of the state machine: the input    *)
(* mapping raw_data is chosen, then the blocks of the function body        *)
(* execute in program order, one action per block.  Power readings are     *)
(* whole watts; on such readings min, + and - of binary64 are exact, so    *)
(* they are modelled by integer arithmetic.  The quotient of the final     *)
(* "/= 1000" is kept as the exact fraction num/den.                        *)
(*                                                                         *)
(* SpecToken, SpecPoll, SpecPollLive: the polling loop (src/scheduler.py,  *)
(* src/app.py) with the token cache of src/api_client.py and the           *)
(* device_meta table of src/db.py.                                         *)
(***************************************************************************)
EXTENDS Integers, Sequences, FiniteSets, TLC

\* ------------------------------------------------------------------ bounds
WattStep == 500
MaxPV == 10
MaxLoad == 4
MaxBattery == 2
MaxGrid == 1
MaxNegative == 1
MaxRepeat == 1
MaxCalls == 3
MaxTime == 600
PollMaxTime == 60
ShortExpiry == 120
MaxDevs == 2
MaxRows == 1

\* ------------------------------------------------------- program constants
KW_DIVISOR == 1000
TOKEN_MARGIN == 60
DEFAULT_EXPIRES_IN == 3600
SCHEDULER_INTERVAL == 300
APP_INTERVAL == 60

Keys == {"TotalSolarPower", "TotalConsumptionPower", "TotalGridPower", "BatteryPower"}

KeyOrder == <<"TotalSolarPower", "TotalConsumptionPower", "TotalGridPower", "BatteryPower">>

FlowNames ==
    {"PV to Load", "PV to Battery", "PV to Grid", "Grid to Load",
     "Grid to Battery", "Battery to Load", "Battery to Grid", "Load to Grid"}

\* flows = { name: 0.0 for the 8 names }
ZeroFlows == [n \in FlowNames |-> 0]

Min(a, b) == IF a <= b THEN a ELSE b

\* ---------------------------------------------------------- input mappings
\* An entry of raw_data is a dict.  kind says what its "value" field holds:
\*   "num"      a number (or numeric string): float() succeeds
\*   "novalue"  the dict has no "value" field
\*   "null"     the field is None
\*   "text"     the field is a non-numeric string
Num(v) == [kind |-> "num", value |-> v]

Malformed == {[kind |-> k, value |-> 0] : k \in {"novalue", "null", "text"}}

Absent == [kind |-> "absent", value |-> 0]

Levels(lo, hi) == {Num(k * WattStep) : k \in lo..hi}

Options(key) ==
    Malformed \cup {Absent} \cup
    CASE key = "TotalSolarPower"       -> Levels(-MaxNegative, MaxPV)
      [] key = "TotalConsumptionPower" -> Levels(-MaxNegative, MaxLoad)
      [] key = "TotalGridPower"        -> Levels(-MaxGrid, MaxGrid)
      [] key = "BatteryPower"          -> Levels(-MaxBattery, MaxBattery) \cup {Num(800)}

\* The dict holding exactly the keys whose option is not Absent.
MakeMap(choice) ==
    [k \in {x \in Keys : choice[x] # Absent} |-> choice[k]]

\* raw_data.get(key, {"value": 0})
Lookup_NoDefault(raw, key) ==
    IF key \in DOMAIN raw THEN raw[key] ELSE [kind |-> "novalue", value |-> 0]

Lookup(raw, key) ==
    IF key \in DOMAIN raw THEN raw[key] ELSE Num(0)

\* float(entry["value"]): the exception it raises, or "none"
ReadError(raw, key) ==
    LET e == Lookup(raw, key) IN
    CASE e.kind = "novalue" -> "KeyError"
      [] e.kind = "null"    -> "TypeError"
      [] e.kind = "text"    -> "ValueError"
      [] OTHER              -> "none"

\* float(entry["value"]) when it raises nothing
ReadValue(raw, key) == Lookup(raw, key).value

\* The four reads run in KeyOrder; the first one that raises ends the call.
FirstError(raw) ==
    LET bad == {i \in 1..Len(KeyOrder) : ReadError(raw, KeyOrder[i]) # "none"} IN
    IF bad = {} THEN "none"
    ELSE ReadError(raw, KeyOrder[CHOOSE i \in bad : \A j \in bad : i <= j])

\* ------------------------------------------------------------------ state
\* raw_data .. flows: the argument and the locals of the running call of
\* calculate_flows; result, raised: what the call returned or raised;
\* pv_to_batt: the figure the Insights tab shows; calls, first: the number of
\* calls started and the outcome of the first one.
VARIABLES raw_data, pc, pv_power, load_power, grid_power, battery_power,
          flows, result, raised, pv_to_batt, calls, first

\* The polling side.  poller: which loop runs (scheduler.main or
\* app._background_scheduler); STATIC_TOKEN, token_cache: the module state of
\* api_client; now: time.time(); ppc: where the loop stands; token: the token
\* fetch_latest got; devs, pending: deviceDataList and the part of it the
\* upsert loop has not reached; device_meta: the table, a set of rows;
\* device_data: its number of rows; outcome: how the last cycle ended;
\* gt: the last call of get_token; last_upsert: the last row upserted for
\* each device; horizon: the time at which the modelled clock stops.
VARIABLES poller, STATIC_TOKEN, token_cache, now, ppc, token, devs, pending,
          device_meta, device_data, outcome, gt, last_upsert, horizon

pollVars == <<poller, STATIC_TOKEN, token_cache, now, ppc, token, devs, pending,
              device_meta, device_data, outcome, gt, last_upsert, horizon>>

\* ------------------------------------------------------ the function body
\* The flows dict kept from one call to the next.
Locals0_SharedFlows(raw) ==
    [pv_power      |-> Lookup(raw, "TotalSolarPower").value,
     load_power    |-> Lookup(raw, "TotalConsumptionPower").value,
     grid_power    |-> Lookup(raw, "TotalGridPower").value,
     battery_power |-> Lookup(raw, "BatteryPower").value,
     flows         |-> flows]

\* Locals of calculate_flows once the four reads succeeded.
Locals0(raw) ==
    [pv_power      |-> ReadValue(raw, "TotalSolarPower"),
     load_power    |-> ReadValue(raw, "TotalConsumptionPower"),
     grid_power    |-> ReadValue(raw, "TotalGridPower"),
     battery_power |-> ReadValue(raw, "BatteryPower"),
     flows         |-> ZeroFlows]

PVToLoad_NoMinLoad(pv, load) == load

PVToLoad_NoMinPV(pv, load) == pv

\* flows["PV to Load"] = min(pv_power, load_power)
PVToLoad(pv, load) == Min(pv, load)

PVToBattery_NoMin(pv, battery) == pv

PVToBattery_Sign(pv, battery) == Min(pv, battery)

\* flows["PV to Battery"] = min(pv_power, -battery_power)
PVToBattery(pv, battery) == Min(pv, -battery)

BatteryToLoad_NoMin(battery, load) == battery

\* flows["Battery to Load"] = min(battery_power, load_power)
BatteryToLoad(battery, load) == Min(battery, load)

GridToBattery_Sign(battery) == battery

\* flows["Grid to Battery"] = -battery_power
GridToBattery(battery) == -battery

\* flows["Battery to Grid"] = battery_power
BatteryToGrid(battery) == battery

\* "Distribute PV power" with the battery served before the load.
AfterPV_BatteryFirst(s) ==
    IF s.pv_power > 0 THEN
        LET ptb  == IF s.battery_power < 0
                    THEN PVToBattery(s.pv_power, s.battery_power) ELSE 0
            pv1  == s.pv_power - ptb
            bat1 == s.battery_power + ptb
            ptl  == IF pv1 > 0 THEN PVToLoad(pv1, s.load_power) ELSE 0
            pv2  == pv1 - ptl
            ptg  == IF pv2 > 0 THEN pv2 ELSE 0
        IN [s EXCEPT !.pv_power = pv2,
                     !.load_power = s.load_power - ptl,
                     !.battery_power = bat1,
                     !.flows = [@ EXCEPT !["PV to Load"] = ptl,
                                         !["PV to Battery"] = ptb,
                                         !["PV to Grid"] = ptg]]
    ELSE s

\* "Distribute PV power"
AfterPV(s) ==
    IF s.pv_power > 0 THEN
        LET ptl   == PVToLoad(s.pv_power, s.load_power)
            pv1   == s.pv_power - ptl
            load1 == s.load_power - ptl
            ptb   == IF s.battery_power < 0 /\ pv1 > 0
                     THEN PVToBattery(pv1, s.battery_power) ELSE 0
            pv2   == pv1 - ptb
            bat1  == s.battery_power + ptb
            ptg   == IF pv2 > 0 THEN pv2 ELSE 0
        IN [s EXCEPT !.pv_power = pv2,
                     !.load_power = load1,
                     !.battery_power = bat1,
                     !.flows = [@ EXCEPT !["PV to Load"] = ptl,
                                         !["PV to Battery"] = ptb,
                                         !["PV to Grid"] = ptg]]
    ELSE s

\* "Handle remaining load"
AfterLoad(s) ==
    IF s.load_power > 0 THEN
        LET btl   == IF s.battery_power > 0
                     THEN BatteryToLoad(s.battery_power, s.load_power) ELSE 0
            load1 == s.load_power - btl
            bat1  == s.battery_power - btl
            gtl   == IF load1 > 0 THEN load1 ELSE 0
        IN [s EXCEPT !.load_power = load1,
                     !.battery_power = bat1,
                     !.flows = [@ EXCEPT !["Battery to Load"] = btl,
                                         !["Grid to Load"] = gtl]]
    ELSE s

\* "Battery charging from grid"
AfterGridCharge(s) ==
    IF s.battery_power < 0
    THEN [s EXCEPT !.flows = [@ EXCEPT !["Grid to Battery"] = GridToBattery(s.battery_power)]]
    ELSE s

AfterExport_WrongKey(s) ==
    IF s.battery_power > 0
    THEN [s EXCEPT !.flows = [@ EXCEPT !["Load to Grid"] = BatteryToGrid(s.battery_power)]]
    ELSE s

\* "Excess battery to grid"
AfterExport(s) ==
    IF s.battery_power > 0
    THEN [s EXCEPT !.flows = [@ EXCEPT !["Battery to Grid"] = BatteryToGrid(s.battery_power)]]
    ELSE s

\* flows[key] /= 1000: the quotient w / 1000 as a fraction
ToKW(w) == [num |-> w, den |-> KW_DIVISOR]

Keep_NonNegative(q) == q.num * q.den >= 0

\* the filter "if v > 0" of the returned comprehension
Keep(q) == q.num * q.den > 0

\* "Convert to kW" and the returned dict comprehension
Returned(fl) ==
    LET kw == [n \in FlowNames |-> ToKW(fl[n])] IN
    [n \in {x \in FlowNames : Keep(kw[x])} |-> kw[n]]

\* The whole call: the exception it raises ("none" if it returns) and the
\* mapping it returns.
calculate_flows(raw) ==
    IF FirstError(raw) # "none"
    THEN [raised |-> FirstError(raw), result |-> <<>>]
    ELSE [raised |-> "none",
          result |-> Returned(AfterExport(AfterGridCharge(AfterLoad(AfterPV(Locals0(raw))))).flows)]

flowVars == <<raw_data, pc, pv_power, load_power, grid_power, battery_power,
              flows, result, raised, pv_to_batt, calls, first>>

vars == <<flowVars, pollVars>>

Locals ==
    [pv_power |-> pv_power, load_power |-> load_power, grid_power |-> grid_power,
     battery_power |-> battery_power, flows |-> flows]

SetLocals(s) ==
    /\ pv_power' = s.pv_power
    /\ load_power' = s.load_power
    /\ grid_power' = s.grid_power
    /\ battery_power' = s.battery_power
    /\ flows' = s.flows

DEVICE_LIST == {"2303058755", "2210274681"}

\* A token or STATIC_TOKEN that is None or empty is "": Python treats both as
\* false.
Truthy(t) == t # ""

\* _token_cache = {"token": None, "expires": 0}
EmptyCache == [token |-> "", expires |-> 0]

\* No call of get_token yet, or a call that sent no login request.
NoLogin == [ok |-> FALSE, token |-> "", has_expires |-> FALSE, expiresIn |-> 0]

NoCall ==
    [before |-> EmptyCache, at |-> 0, ret |-> "", raised |-> FALSE, logins |-> 0,
     resp |-> NoLogin]

\* The poller does not run.
PollOff ==
    /\ poller = "none"
    /\ STATIC_TOKEN = ""
    /\ token_cache = EmptyCache
    /\ now = 0
    /\ ppc = "off"
    /\ token = ""
    /\ devs = <<>>
    /\ pending = <<>>
    /\ device_meta = {}
    /\ device_data = 0
    /\ outcome = "none"
    /\ gt = NoCall
    /\ last_upsert = {}
    /\ horizon = 0

\* flows.get(key, 0): the default 0
NoFlow == [num |-> 0, den |-> 1]

\* No call has ended yet.
NoOutcome == [raw |-> <<>>, raised |-> "pending", result |-> <<>>]

\* The outcome of the call that ends now, kept if it is the first call.
Record(r, e) ==
    first' = IF calls = 1 THEN [raw |-> raw_data, raised |-> e, result |-> r] ELSE first

Init ==
    /\ \E a \in Options("TotalSolarPower"), b \in Options("TotalConsumptionPower"),
          c \in Options("TotalGridPower"), d \in Options("BatteryPower") :
          raw_data = MakeMap([k \in Keys |->
                        CASE k = "TotalSolarPower" -> a
                          [] k = "TotalConsumptionPower" -> b
                          [] k = "TotalGridPower" -> c
                          [] k = "BatteryPower" -> d])
    /\ pc = "read"
    /\ pv_power = 0
    /\ load_power = 0
    /\ grid_power = 0
    /\ battery_power = 0
    /\ flows = ZeroFlows
    /\ result = <<>>
    /\ raised = "none"
    /\ pv_to_batt = NoFlow
    /\ calls = 1
    /\ first = NoOutcome
    /\ PollOff

\* The four float(raw_data.get(...)["value"]) reads and the flows literal.
ReadInputs ==
    /\ pc = "read"
    /\ IF FirstError(raw_data) # "none"
       THEN /\ raised' = FirstError(raw_data)
            /\ pc' = "raised"
            /\ Record(result, FirstError(raw_data))
            /\ UNCHANGED <<pv_power, load_power, grid_power, battery_power, flows>>
       ELSE /\ SetLocals(Locals0(raw_data))
            /\ pc' = "pv"
            /\ UNCHANGED <<raised, first>>
    /\ UNCHANGED <<raw_data, result, pv_to_batt, calls>>
    /\ UNCHANGED pollVars

DistributePV ==
    /\ pc = "pv"
    /\ SetLocals(AfterPV(Locals))
    /\ pc' = "load"
    /\ UNCHANGED <<raw_data, result, raised, pv_to_batt, calls, first>>
    /\ UNCHANGED pollVars

HandleLoad ==
    /\ pc = "load"
    /\ SetLocals(AfterLoad(Locals))
    /\ pc' = "charge"
    /\ UNCHANGED <<raw_data, result, raised, pv_to_batt, calls, first>>
    /\ UNCHANGED pollVars

ChargeFromGrid ==
    /\ pc = "charge"
    /\ SetLocals(AfterGridCharge(Locals))
    /\ pc' = "export"
    /\ UNCHANGED <<raw_data, result, raised, pv_to_batt, calls, first>>
    /\ UNCHANGED pollVars

ExportBattery ==
    /\ pc = "export"
    /\ SetLocals(AfterExport(Locals))
    /\ pc' = "convert"
    /\ UNCHANGED <<raw_data, result, raised, pv_to_batt, calls, first>>
    /\ UNCHANGED pollVars

ConvertAndReturn ==
    /\ pc = "convert"
    /\ result' = Returned(flows)
    /\ pc' = "done"
    /\ Record(Returned(flows), raised)
    /\ UNCHANGED <<raw_data, pv_power, load_power, grid_power, battery_power, flows,
                   raised, pv_to_batt, calls>>
    /\ UNCHANGED pollVars

\* The key the Insights tab looks up; the source spells it with the arrow
\* U+2192 between "PV" and "Battery", written "->" here.
INSIGHTS_KEY == "PV->Battery"

\* d.get(key, 0)
DictGet(d, key) == IF key \in DOMAIN d THEN d[key] ELSE NoFlow

\* Insights tab: flows = calculate_flows(raw); pv_to_batt = flows.get(key, 0)
ShowInsights ==
    /\ pc = "done"
    /\ pv_to_batt' = DictGet(result, INSIGHTS_KEY)
    /\ pc' = "shown"
    /\ UNCHANGED <<raw_data, pv_power, load_power, grid_power, battery_power, flows,
                   result, raised, calls, first>>
    /\ UNCHANGED pollVars

Next ==
    \/ ReadInputs
    \/ DistributePV
    \/ HandleLoad
    \/ ChargeFromGrid
    \/ ExportBattery
    \/ ConvertAndReturn
    \/ ShowInsights

Spec == Init /\ [][Next]_vars

\* ------------------------------------------------------- repeated calls
RepeatOptions(key) ==
    CASE key = "TotalSolarPower"       -> Levels(0, MaxRepeat)
      [] key = "TotalConsumptionPower" -> Levels(0, MaxRepeat)
      [] key = "TotalGridPower"        -> {Absent}
      [] key = "BatteryPower"          -> Levels(-MaxRepeat, MaxRepeat)

RepeatInputs ==
    {MakeMap(c) : c \in {f \in [Keys -> UNION {RepeatOptions(k) : k \in Keys}] :
                            \A k \in Keys : f[k] \in RepeatOptions(k)}}

InitRepeat ==
    /\ raw_data \in RepeatInputs
    /\ pc = "read"
    /\ pv_power = 0
    /\ load_power = 0
    /\ grid_power = 0
    /\ battery_power = 0
    /\ flows = ZeroFlows
    /\ result = <<>>
    /\ raised = "none"
    /\ pv_to_batt = NoFlow
    /\ calls = 1
    /\ first = NoOutcome
    /\ PollOff

\* The next call of calculate_flows, by any caller, with any input mapping:
\* a new frame, nothing returned or raised yet.
CallAgain ==
    /\ pc \in {"done", "shown", "raised"}
    /\ calls < MaxCalls
    /\ raw_data' \in RepeatInputs
    /\ pc' = "read"
    /\ result' = <<>>
    /\ raised' = "none"
    /\ calls' = calls + 1
    /\ UNCHANGED <<pv_power, load_power, grid_power, battery_power, flows, pv_to_batt, first>>
    /\ UNCHANGED pollVars

NextRepeat ==
    \/ Next
    \/ CallAgain

SpecRepeat == InitRepeat /\ [][NextRepeat]_vars

\* ------------------------------------------------------------ the poller
\* What the login request can come to: an HTTP error or timeout, or a body
\* with data.token (possibly missing) and data.expiresIn (possibly missing).
LoginFailed == [ok |-> FALSE, token |-> "", has_expires |-> FALSE, expiresIn |-> 0]

LoginOK(t, e) ==
    [ok |-> TRUE, token |-> t, has_expires |-> e # 0, expiresIn |-> e]

AllLogins ==
    {LoginFailed} \cup {LoginOK(t, e) : t \in {"", "tokA", "tokB"}, e \in {0, ShortExpiry}}

PollLogins == {LoginFailed, LoginOK("tokA", 0)}

\* data.get("expiresIn", 3600)
ExpiresIn(resp) == IF resp.has_expires THEN resp.expiresIn ELSE DEFAULT_EXPIRES_IN

CacheFresh_NoMargin(cache, t) == Truthy(cache.token) /\ t < cache.expires

\* _token_cache["token"] and now < _token_cache["expires"] - 60
CacheFresh(cache, t) == Truthy(cache.token) /\ t < cache.expires - TOKEN_MARGIN

\* get_token() called at time t with the cache as it is, resp being what a
\* login request would come to: the token returned (or raised), the cache it
\* leaves, the number of login requests it sent.
get_token(static, cache, t, resp) ==
    IF Truthy(static)
    THEN [ret |-> static, raised |-> FALSE, cache |-> cache, logins |-> 0]
    ELSE IF CacheFresh(cache, t)
    THEN [ret |-> cache.token, raised |-> FALSE, cache |-> cache, logins |-> 0]
    ELSE IF ~resp.ok
    THEN [ret |-> "", raised |-> TRUE, cache |-> cache, logins |-> 1]
    ELSE [ret |-> resp.token, raised |-> FALSE, logins |-> 1,
          cache |-> [token |-> resp.token, expires |-> t + ExpiresIn(resp)]]

Caught_OnlyHTTP(exc) == exc = "HTTPError"

\* "except Exception" of job(): every error of a cycle is an Exception
Caught(exc) == exc \in {"HTTPError", "KeyError", "OperationalError"}

\* An exception raised inside the try block of job().
Fail(exc) ==
    /\ outcome' = exc
    /\ ppc' = IF Caught(exc) THEN "sleep" ELSE "crashed"

INTERVAL == IF poller = "scheduler" THEN SCHEDULER_INTERVAL ELSE APP_INTERVAL

\* device_meta rows a response entry can carry
Shapes ==
    {[deviceType |-> "INVERTER", deviceState |-> 1, collectionTime |-> 100],
     [deviceType |-> "MICRO_INVERTER", deviceState |-> 0, collectionTime |-> 200]}

\* An entry of deviceDataList: complete, or lacking one of the keys job() reads.
Entry(sn, sh) ==
    [kind |-> "ok", deviceSn |-> sn, deviceType |-> sh.deviceType,
     deviceState |-> sh.deviceState, collectionTime |-> sh.collectionTime]

BadEntry ==
    [kind |-> "malformed", deviceSn |-> "", deviceType |-> "", deviceState |-> 0,
     collectionTime |-> 0]

Entries == {Entry(sn, sh) : sn \in DEVICE_LIST, sh \in Shapes} \cup {BadEntry}

DevLists == UNION {[1..n -> Entries] : n \in 0..MaxDevs}

\* What the POST of fetch_latest can come to.
HTTPFailure == [kind |-> "http_error", devs |-> <<>>]

NotSuccess == [kind |-> "not_success", devs |-> <<>>]

NoDeviceResponses == {HTTPFailure, NotSuccess}

AllResponses ==
    NoDeviceResponses \cup {[kind |-> "success", devs |-> l] : l \in DevLists}

Row(d) ==
    [device_sn |-> d.deviceSn, device_type |-> d.deviceType,
     last_state |-> d.deviceState, last_update |-> d.collectionTime]

upsert_device_meta_Ignore(table, row) ==
    IF \E r \in table : r.device_sn = row.device_sn THEN table ELSE table \cup {row}

\* INSERT ... ON CONFLICT(device_sn) DO UPDATE SET the three other columns
upsert_device_meta(table, row) ==
    {r \in table : r.device_sn # row.device_sn} \cup {row}

InitPolling(pollers, stop) ==
    /\ raw_data = <<>>
    /\ pc = "idle"
    /\ pv_power = 0
    /\ load_power = 0
    /\ grid_power = 0
    /\ battery_power = 0
    /\ flows = ZeroFlows
    /\ result = <<>>
    /\ raised = "none"
    /\ pv_to_batt = NoFlow
    /\ calls = 0
    /\ first = NoOutcome
    /\ poller \in pollers
    /\ STATIC_TOKEN \in {"", "static"}
    /\ token_cache = EmptyCache
    /\ now = 0
    /\ ppc = "job"
    /\ token = ""
    /\ devs = <<>>
    /\ pending = <<>>
    /\ device_meta = {}
    /\ device_data = 0
    /\ outcome = "none"
    /\ gt = NoCall
    /\ last_upsert = {}
    /\ horizon = stop

\* job(): fetch_latest calls get_token()
JobGetToken(logins) ==
    /\ ppc = "job"
    /\ \E resp \in logins :
          LET g == get_token(STATIC_TOKEN, token_cache, now, resp) IN
          /\ token_cache' = g.cache
          /\ gt' = [before |-> token_cache, at |-> now, ret |-> g.ret,
                    raised |-> g.raised, logins |-> g.logins,
                    resp |-> IF g.logins = 1 THEN resp ELSE NoLogin]
          /\ IF g.raised
             THEN Fail("HTTPError") /\ UNCHANGED token
             ELSE ppc' = "fetch" /\ token' = g.ret /\ outcome' = "running"
    /\ UNCHANGED <<poller, STATIC_TOKEN, now, devs, pending, device_meta, device_data,
                   last_upsert, horizon>>
    /\ UNCHANGED flowVars

\* job(): the POST of fetch_latest and the test of result.get('success')
JobFetch(responses) ==
    /\ ppc = "fetch"
    /\ \E r \in responses :
          CASE r.kind = "http_error" ->
                  Fail("HTTPError") /\ UNCHANGED <<devs, pending>>
            [] r.kind = "not_success" ->
                  outcome' = "FetchFailed" /\ ppc' = "sleep" /\ UNCHANGED <<devs, pending>>
            [] r.kind = "success" ->
                  devs' = r.devs /\ pending' = r.devs /\ ppc' = "upsert" /\ UNCHANGED outcome
    /\ UNCHANGED <<poller, STATIC_TOKEN, token_cache, now, token, device_meta, device_data,
                   gt, last_upsert, horizon>>
    /\ UNCHANGED flowVars

\* job(): one round of "for d in devs"
UpsertDevice ==
    /\ ppc = "upsert"
    /\ pending # <<>>
    /\ LET d == Head(pending) IN
       IF d.kind = "malformed"
       THEN Fail("KeyError") /\ UNCHANGED <<pending, device_meta, last_upsert>>
       ELSE \/ Fail("OperationalError") /\ UNCHANGED <<pending, device_meta, last_upsert>>
            \/ /\ device_meta' = upsert_device_meta(device_meta, Row(d))
               /\ last_upsert' = {r \in last_upsert : r.device_sn # d.deviceSn} \cup {Row(d)}
               /\ pending' = Tail(pending)
               /\ UNCHANGED <<ppc, outcome>>
    /\ UNCHANGED <<poller, STATIC_TOKEN, token_cache, now, token, devs, device_data, gt,
                   horizon>>
    /\ UNCHANGED flowVars

\* job(): flatten_records(devs) and insert_device_data(records); one record
\* per entry, the table counted up to MaxRows
InsertData ==
    /\ ppc = "upsert"
    /\ pending = <<>>
    /\ \/ Fail("OperationalError") /\ UNCHANGED device_data
       \/ /\ device_data' = Min(device_data + Len(devs), MaxRows)
          /\ outcome' = "ok"
          /\ ppc' = "sleep"
    /\ UNCHANGED <<poller, STATIC_TOKEN, token_cache, now, token, devs, pending,
                   device_meta, gt, last_upsert, horizon>>
    /\ UNCHANGED flowVars

\* time.sleep(INTERVAL), then the loop calls job() again; the clock stops at
\* horizon
Sleep ==
    /\ ppc = "sleep"
    /\ now' = Min(now + INTERVAL, horizon)
    /\ ppc' = "job"
    /\ outcome' = "none"
    /\ devs' = <<>>
    /\ pending' = <<>>
    /\ token' = ""
    /\ UNCHANGED <<poller, STATIC_TOKEN, token_cache, device_meta, device_data, gt,
                   last_upsert, horizon>>
    /\ UNCHANGED flowVars

\* The loop of app._background_scheduler, every answer of the login request.
InitToken == InitPolling({"app"}, MaxTime)

NextToken ==
    \/ JobGetToken(AllLogins)
    \/ JobFetch(NoDeviceResponses)
    \/ Sleep

SpecToken == InitToken /\ [][NextToken]_vars

\* The loops of scheduler.main and app._background_scheduler, every answer of
\* the device request.
InitPoll == InitPolling({"scheduler", "app"}, PollMaxTime)

NextPoll ==
    \/ JobGetToken(PollLogins)
    \/ JobFetch(AllResponses)
    \/ UpsertDevice
    \/ InsertData
    \/ Sleep

SpecPoll == InitPoll /\ [][NextPoll]_vars

\* Each blocking call of the loop returns (requests time out after 10 s,
\* sleep ends), so the loop always takes its next step.
SpecPollLive == SpecPoll /\ WF_vars(NextPoll)

\* ----------------------------------------------------- reading the result
\* The reading of key that the call received (0 when the key is absent).
In(key) == ReadValue(raw_data, key)

PVIn == In("TotalSolarPower")

LoadIn == In("TotalConsumptionPower")

GridIn == In("TotalGridPower")

BatteryIn == In("BatteryPower")

Has(n) == n \in DOMAIN result

\* A returned flow converted back to watts; an absent flow counts as 0.
Watts(n) == IF Has(n) THEN (result[n].num * KW_DIVISOR) \div result[n].den ELSE 0

\* The flow is n kW exactly.
IsKW(q, n) == q.num = n * q.den

\* The call returned and its pv and load readings were not negative.
ReturnedNonNeg == pc = "done" /\ PVIn >= 0 /\ LoadIn >= 0

\* ------------------------------------------------------------------ claims

\* C1: for pv_power >= 0 and load_power >= 0 (any battery_power, grid_power)
\* the returned mapping has only keys among the 8 flow names and every value
\* in it is strictly positive.
C1_OnlyPositiveFlows ==
    ReturnedNonNeg =>
        /\ DOMAIN result \subseteq FlowNames
        /\ \A n \in DOMAIN result : result[n].den > 0 /\ result[n].num > 0

C1_Witness ==
    ReturnedNonNeg /\ Cardinality(DOMAIN result) = 3 /\ GridIn < 0 /\ BatteryIn > 0

\* C2: PV conservation: PV to Load + PV to Battery + PV to Grid, in watts,
\* equals the pv_power input.
C2_PVConservation ==
    ReturnedNonNeg =>
        Watts("PV to Load") + Watts("PV to Battery") + Watts("PV to Grid") = PVIn

C2_Witness ==
    ReturnedNonNeg /\ Has("PV to Load") /\ Has("PV to Battery") /\ Has("PV to Grid")
                   /\ PVIn > LoadIn - BatteryIn

\* C3: battery conservation: (Battery to Load + Battery to Grid) minus
\* (PV to Battery + Grid to Battery), in watts, equals the signed battery_power
\* input.
C3_BatteryConservation ==
    ReturnedNonNeg =>
        /\ (Watts("Battery to Load") + Watts("Battery to Grid"))
             - (Watts("PV to Battery") + Watts("Grid to Battery")) = BatteryIn
        /\ Watts("Battery to Load") + Watts("Battery to Grid")
             = (IF BatteryIn > 0 THEN BatteryIn ELSE 0)
        /\ Watts("PV to Battery") + Watts("Grid to Battery")
             = (IF BatteryIn < 0 THEN -BatteryIn ELSE 0)

C3_Witness ==
    ReturnedNonNeg /\ BatteryIn < 0 /\ Has("PV to Battery") /\ Has("Grid to Battery")
                   /\ ~Has("PV to Grid")

\* The net grid flow of the result in watts: import minus export.
NetGrid ==
    Watts("Grid to Load") + Watts("Grid to Battery")
        - Watts("PV to Grid") - Watts("Battery to Grid")

\* C4 (as claimed): the net grid flow of the result equals the grid_power
\* input.
C4_GridEqualsInput == ReturnedNonNeg => NetGrid = GridIn

\* C4 (amended): the net grid flow of the result equals
\* load_power - pv_power - battery_power, whatever grid_power is; it equals
\* grid_power exactly when the four readings balance.
C4_GridIsResidual ==
    ReturnedNonNeg =>
        /\ NetGrid = LoadIn - PVIn - BatteryIn
        /\ (NetGrid = GridIn) <=> (GridIn = LoadIn - PVIn - BatteryIn)

C4_Witness ==
    ReturnedNonNeg /\ NetGrid > 0 /\ GridIn < 0 /\ Has("Grid to Load")

\* C5: load conservation: PV to Load + Battery to Load + Grid to Load, in
\* watts, equals the load_power input.
C5_LoadConservation ==
    ReturnedNonNeg =>
        Watts("PV to Load") + Watts("Battery to Load") + Watts("Grid to Load") = LoadIn

C5_Witness ==
    ReturnedNonNeg /\ Has("PV to Load") /\ Has("Battery to Load") /\ Has("Grid to Load")

\* The input with a negative pv or load reading replaced by 0.
Clamped(raw) ==
    [k \in DOMAIN raw |->
        IF /\ k \in {"TotalSolarPower", "TotalConsumptionPower"}
           /\ raw[k].kind = "num"
           /\ raw[k].value < 0
        THEN Num(0) ELSE raw[k]]

\* C6: a call whose pv_power or load_power is negative returns exactly the
\* mapping returned when that negative reading is replaced by 0.
C6_NegativeAsZero ==
    (pc = "done" /\ (PVIn < 0 \/ LoadIn < 0)) =>
        result = calculate_flows(Clamped(raw_data)).result

\* The input with every malformed entry replaced by a reading of 0.
Repaired(raw) ==
    [k \in DOMAIN raw |-> IF raw[k] \in Malformed THEN Num(0) ELSE raw[k]]

\* C7: a call whose input has a malformed entry (no "value" field, a null or
\* a non-numeric value) raises nothing and returns the mapping obtained with
\* that metric read as 0.
C7_MalformedAsZero ==
    (pc \in {"done", "raised"} /\ \E k \in DOMAIN raw_data : raw_data[k] \in Malformed) =>
        /\ raised = "none"
        /\ result = calculate_flows(Repaired(raw_data)).result

\* The input with every absent key present with value 0.
Filled(raw) == [k \in Keys |-> IF k \in DOMAIN raw THEN raw[k] ELSE Num(0)]

\* C8: whichever of the four keys are absent, the absent keys raise no error
\* and the call ends exactly as it does when those keys are present with
\* value 0.
C8_MissingAsZero ==
    (pc \in {"done", "raised"} /\ DOMAIN raw_data # Keys) =>
        /\ raised = calculate_flows(Filled(raw_data)).raised
        /\ result = calculate_flows(Filled(raw_data)).result
        /\ (\A k \in DOMAIN raw_data : raw_data[k].kind = "num") => raised = "none"

C8_Witness ==
    /\ pc = "done"
    /\ DOMAIN raw_data = {"TotalConsumptionPower"}
    /\ Has("Grid to Load")

\* C9: fixed priority: PV to Battery or PV to Grid is present only if PV
\* serves the whole load (no Battery to Load, no Grid to Load); Battery to
\* Grid is present only if Grid to Load is absent; and when pv_power <=
\* load_power with the battery charging, the whole charge is Grid to Battery
\* and Grid to Load is load_power - pv_power.
C9_PriorityPolicy ==
    ReturnedNonNeg =>
        /\ (Has("PV to Battery") \/ Has("PV to Grid")) =>
              /\ Watts("PV to Load") = LoadIn
              /\ ~Has("Battery to Load")
              /\ ~Has("Grid to Load")
        /\ Has("Battery to Grid") => ~Has("Grid to Load")
        /\ (PVIn <= LoadIn /\ BatteryIn < 0) =>
              /\ Watts("Grid to Battery") = -BatteryIn
              /\ Watts("Grid to Load") = LoadIn - PVIn
              /\ ~Has("PV to Battery")
              /\ ~Has("PV to Grid")

C9_Witness ==
    /\ ReturnedNonNeg
    /\ PVIn = 1000 /\ LoadIn = 1500 /\ BatteryIn = -500
    /\ DOMAIN result = {"PV to Load", "Grid to Battery", "Grid to Load"}
    /\ IsKW(result["PV to Load"], 1)

\* What steps 1-3 give for readings pv, load, battery (watts).
ExpectedPVToLoad == Min(PVIn, LoadIn)

ExpectedPVToBattery ==
    Min(PVIn - ExpectedPVToLoad, IF BatteryIn < 0 THEN -BatteryIn ELSE 0)

ExpectedPVToGrid == PVIn - ExpectedPVToLoad - ExpectedPVToBattery

\* C10: for pv_power > 0 and load_power >= 0: PV to Load = min(pv, load),
\* PV to Battery = min(pv - PV to Load, max(-battery, 0)), PV to Grid = the
\* rest, each dropped when 0; pv=5000, load=2000, battery=-1000 gives
\* 2.0, 1.0 and 2.0 kW.
C10_PVDistribution ==
    (ReturnedNonNeg /\ PVIn > 0) =>
        /\ Watts("PV to Load") = ExpectedPVToLoad
        /\ Watts("PV to Battery") = ExpectedPVToBattery
        /\ Watts("PV to Grid") = ExpectedPVToGrid
        /\ Has("PV to Load") <=> ExpectedPVToLoad > 0
        /\ Has("PV to Battery") <=> ExpectedPVToBattery > 0
        /\ Has("PV to Grid") <=> ExpectedPVToGrid > 0
        /\ (PVIn = 5000 /\ LoadIn = 2000 /\ BatteryIn = -1000) =>
              /\ DOMAIN result = {"PV to Load", "PV to Battery", "PV to Grid"}
              /\ IsKW(result["PV to Load"], 2)
              /\ IsKW(result["PV to Battery"], 1)
              /\ IsKW(result["PV to Grid"], 2)

C10_Witness ==
    /\ pc = "done"
    /\ PVIn = 5000 /\ LoadIn = 2000 /\ BatteryIn = -1000
    /\ Has("PV to Load") /\ Has("PV to Battery") /\ Has("PV to Grid")

\* The load left after PV served it, in watts.
LoadAfterPV == LoadIn - Watts("PV to Load")

ExpectedBatteryToLoad == Min(IF BatteryIn > 0 THEN BatteryIn ELSE 0, LoadAfterPV)

ExpectedGridToLoad == LoadAfterPV - ExpectedBatteryToLoad

\* C11: with L the load left after PV, if L > 0 then Battery to Load =
\* min(max(battery_power, 0), L) and Grid to Load = L - Battery to Load, each
\* dropped when 0; pv=0, load=1000, battery=800 gives 0.8 and 0.2 kW.
C11_UnmetLoadDistribution ==
    (pc = "done" /\ LoadAfterPV > 0) =>
        /\ Watts("Battery to Load") = ExpectedBatteryToLoad
        /\ Watts("Grid to Load") = ExpectedGridToLoad
        /\ Has("Battery to Load") <=> ExpectedBatteryToLoad > 0
        /\ Has("Grid to Load") <=> ExpectedGridToLoad > 0
        /\ (PVIn = 0 /\ LoadIn = 1000 /\ BatteryIn = 800) =>
              /\ DOMAIN result = {"Battery to Load", "Grid to Load"}
              /\ result["Battery to Load"].num * 10 = 8 * result["Battery to Load"].den
              /\ result["Grid to Load"].num * 10 = 2 * result["Grid to Load"].den

C11_Witness ==
    /\ pc = "done"
    /\ PVIn = 0 /\ LoadIn = 1000 /\ BatteryIn = 800
    /\ Has("Battery to Load") /\ Has("Grid to Load")

\* C12: whatever the input mapping, the returned mapping never has the key
\* Load to Grid.
C12_LoadToGridDormant == pc = "done" => ~Has("Load to Grid")

C12_Witness ==
    pc = "done" /\ Has("Battery to Grid") /\ LoadIn > 0 /\ PVIn < LoadIn

\* C14: when the four readings are all 0 the returned mapping is empty.
C14_AllZeroEmpty ==
    (pc = "done" /\ PVIn = 0 /\ LoadIn = 0 /\ GridIn = 0 /\ BatteryIn = 0) =>
        DOMAIN result = {}

C14_Witness ==
    /\ pc = "done"
    /\ DOMAIN raw_data = Keys
    /\ \A k \in Keys : raw_data[k] = Num(0)
    /\ result = <<>>

Import == Has("Grid to Load") \/ Has("Grid to Battery")

Export == Has("PV to Grid") \/ Has("Battery to Grid")

Charge == Has("PV to Battery") \/ Has("Grid to Battery")

Discharge == Has("Battery to Load") \/ Has("Battery to Grid")

\* C19: for pv_power >= 0 and load_power >= 0 the returned mapping never has
\* both a grid import flow and a grid export flow, and never both a battery
\* charge flow and a battery discharge flow.
C19_NoOpposingFlows ==
    ReturnedNonNeg => ~(Import /\ Export) /\ ~(Charge /\ Discharge)

C19_Witness ==
    ReturnedNonNeg /\ Export /\ Discharge /\ Has("PV to Load") /\ PVIn = LoadIn

C16_ChargeFromPVShown ==
    pc = "shown" =>
        /\ Has("PV to Battery") => pv_to_batt = result["PV to Battery"]
        /\ ~Has("PV to Battery") <=> pv_to_batt.num = 0

\* A cycle failed: an exception was raised inside job(), or the response said
\* success false.
CycleFailed ==
    /\ outcome \in {"HTTPError", "KeyError", "OperationalError", "FetchFailed"}
    /\ ppc \in {"sleep", "crashed"}

\* C15: no failure inside a poll cycle propagates out of job(), so the loop
\* is never left, and after a failed cycle the loop sleeps and attempts the
\* next cycle.
C15_RecoverAndContinue ==
    /\ [](ppc # "crashed")
    /\ CycleFailed ~> (ppc = "job")

C15_Witness ==
    /\ ppc = "sleep"
    /\ outcome = "KeyError"
    /\ device_meta # {}
    /\ Len(devs) = 2

\* The last call of get_token found a usable cached token.
CachedUsable ==
    Truthy(gt.before.token) /\ gt.at < gt.before.expires - TOKEN_MARGIN

\* C17: get_token returns STATIC_TOKEN, with no login request and no cache
\* change, whenever it is set; else the cached token, with no login request,
\* when one is cached and now is more than 60 s before its expiry; else it
\* sends exactly one login request, stores its token with expiry
\* now + expiresIn (3600 by default) and returns that token.
C17_TokenSelection ==
    gt # NoCall =>
        IF Truthy(STATIC_TOKEN)
        THEN gt.ret = STATIC_TOKEN /\ gt.logins = 0 /\ token_cache = gt.before
                /\ ~gt.raised
        ELSE IF CachedUsable
        THEN gt.ret = gt.before.token /\ gt.logins = 0 /\ token_cache = gt.before
                /\ ~gt.raised
        ELSE /\ gt.logins = 1
             /\ gt.resp.ok =>
                   /\ ~gt.raised
                   /\ gt.ret = gt.resp.token
                   /\ token_cache.token = gt.resp.token
                   /\ token_cache.expires =
                        gt.at + (IF gt.resp.has_expires THEN gt.resp.expiresIn ELSE 3600)
             /\ ~gt.resp.ok => gt.raised /\ token_cache = gt.before

C17_Witness ==
    /\ STATIC_TOKEN = ""
    /\ gt.before.token = "tokA"
    /\ gt.at = gt.before.expires - TOKEN_MARGIN
    /\ gt.logins = 1
    /\ gt.ret = "tokB"
    /\ token_cache = [token |-> "tokB", expires |-> gt.at + 3600]

RowsOf(table, sn) == {r \in table : r.device_sn = sn}

\* C18: device_meta holds at most one row per device_sn, that row is the one
\* of the most recent upsert for the device, and an upsert leaves the rows of
\* the other devices unchanged.
C18_LastWriteWins ==
    /\ [](\A sn \in DEVICE_LIST :
            /\ Cardinality(RowsOf(device_meta, sn)) <= 1
            /\ RowsOf(device_meta, sn) = RowsOf(last_upsert, sn))
    /\ [][\A sn \in DEVICE_LIST :
            RowsOf(last_upsert', sn) = RowsOf(last_upsert, sn) =>
                RowsOf(device_meta', sn) = RowsOf(device_meta, sn)]_vars

C18_Witness ==
    /\ ppc = "upsert"
    /\ pending = <<>>
    /\ Len(devs) = 2
    /\ devs[1].deviceSn = devs[2].deviceSn
    /\ devs[1] # devs[2]
    /\ Cardinality(device_meta) = 2
    /\ Row(devs[2]) \in device_meta

====
